---- MODULE Spec2Model ----
(***************************************************************************)
(* A model of react-native-libprisma: the native tokenizer front end       *)
(* (loadGrammars / tokenizeToJson), Pattern::match, the JSON serializer    *)
(* and the JavaScript tokenize wrapper that parses the serializer's text.  *)
(*                                                                         *)
(* Strings are sequences of characters; a character is a one-element       *)
(* name.  Positions are 0-based as in the C++ code; text[i+1] is the       *)
(* character at position i.                                                *)
(***************************************************************************)
EXTENDS Integers, Sequences, FiniteSets, TLC

\* ------------------------------------------------------------------ bounds

\* Longest source text handed to tokenize.
MaxLen == 4

\* --------------------------------------------------------------- characters

\* The byte 0x01, a control character that escapeJson has no case for.
SOH == "SOH"

QUOTE == "\""

BSL == "\\"

\* Characters of the source texts tokenized with language l: the
\* characters its patterns read, and characters no pattern reads (one
\* that escapeJson escapes, one control character it does not).
CodeChars(l) ==
  CASE l = "prio"   -> {"a", "b", SOH}
    [] l = "lb"     -> {":", "x", "a"}
    [] l = "nest"   -> {QUOTE, "a", "b"}
    [] l = "nestlb" -> {":", "a", "b"}
    [] l = "greedy" -> {"a", "b", "x"}
    [] l = "empty"  -> {"a", "b", "x"}
    [] l = "self"   -> {"a", "b"}
    [] OTHER        -> {"a", QUOTE, SOH}

\* Bytes below 0x20 (the ones the model uses).
ControlChars == {SOH, "\n", "\r", "\t", "\f", "BS"}

RECURSIVE SeqsUpTo(_, _)
SeqsUpTo(S, n) ==
  IF n = 0 THEN {<<>>}
  ELSE LET shorter == SeqsUpTo(S, n - 1)
       IN  shorter \cup {Append(s, c) : s \in {t \in shorter : Len(t) = n - 1}, c \in S}

Codes(l) == SeqsUpTo(CodeChars(l), MaxLen)

\* text.substr(pos, n): at most n characters from position pos, clamped to
\* the end of the text.
substr(text, pos, n) ==
  LET last == IF pos + n > Len(text) THEN Len(text) ELSE pos + n
  IN  SubSeq(text, pos + 1, last)

\* ------------------------------------------------------------ std::regex

\* A regular expression of the modelled class: an optional capture group 1
\* (grp, possibly followed by ?) and a body, each a sequence of atoms.  An
\* atom is a character class or an anchor with a quantifier 1, ? or *.
Cls(cs, q) == [k |-> "set", cs |-> cs, q |-> q]

Lit(c) == Cls({c}, "1")

BOL == [k |-> "bol", cs |-> {}, q |-> "1"]

EOL == [k |-> "eol", cs |-> {}, q |-> "1"]

Regex(grouped, gopt, grp, body) ==
  [grouped |-> grouped, gopt |-> gopt, grp |-> grp, body |-> body]

\* Whether atom a accepts at position i of text, in a search whose range
\* begins at position b: ^ holds at the first position of the range, $ at
\* the last (no match_not_bol / match_prev_avail flag is passed).
AtomOK(a, text, i, b) ==
  CASE a.k = "set" -> i < Len(text) /\ text[i + 1] \in a.cs
    [] a.k = "bol" -> i = b
    [] a.k = "eol" -> i = Len(text)

\* End positions of the matches of atoms[k..] starting at position i, in the
\* order a backtracking ECMAScript matcher tries them (quantifiers greedy).
RECURSIVE Ends(_, _, _, _, _)
Ends(atoms, k, text, i, b) ==
  IF k > Len(atoms) THEN <<i>>
  ELSE IF atoms[k].q = "*"
  THEN (IF AtomOK(atoms[k], text, i, b) THEN Ends(atoms, k, text, i + 1, b) ELSE <<>>)
         \o Ends(atoms, k + 1, text, i, b)
  ELSE (IF AtomOK(atoms[k], text, i, b)
        THEN Ends(atoms, k + 1, text, IF atoms[k].k = "set" THEN i + 1 ELSE i, b)
        ELSE <<>>)
         \o (IF atoms[k].q = "?" THEN Ends(atoms, k + 1, text, i, b) ELSE <<>>)

NoMatch == [matched |-> FALSE, position |-> 0, length |-> 0,
            g1matched |-> FALSE, g1length |-> 0]

\* A match from s to the first of the ends es, when there is one.
MatchTo(s, b, es, g1matched, g1length) ==
  IF es # <<>>
  THEN [matched |-> TRUE, position |-> s - b, length |-> es[1] - s,
        g1matched |-> g1matched, g1length |-> g1length]
  ELSE NoMatch

\* The first group end (in try order) after which the body matches.
RECURSIVE FirstGrouped(_, _, _, _, _, _)
FirstGrouped(re, text, s, b, ges, j) ==
  IF j > Len(ges) THEN NoMatch
  ELSE IF Ends(re.body, 1, text, ges[j], b) # <<>>
  THEN MatchTo(s, b, Ends(re.body, 1, text, ges[j], b), TRUE, ges[j] - s)
  ELSE FirstGrouped(re, text, s, b, ges, j + 1)

\* The match with group 1 taking part, else (group optional) without it.
MatchGrouped(re, text, s, b, g) ==
  IF g.matched \/ ~re.gopt THEN g
  ELSE MatchTo(s, b, Ends(re.body, 1, text, s, b), FALSE, 0)

\* The match of re that starts exactly at position s.
MatchAt(re, text, s, b) ==
  IF ~re.grouped THEN MatchTo(s, b, Ends(re.body, 1, text, s, b), FALSE, 0)
  ELSE MatchGrouped(re, text, s, b,
                    FirstGrouped(re, text, s, b, Ends(re.grp, 1, text, s, b), 1))

RECURSIVE SearchFrom(_, _, _, _)

SearchStep(re, text, s, b, m) ==
  IF m.matched THEN m ELSE SearchFrom(re, text, s + 1, b)

\* The leftmost match starting at s or later.
SearchFrom(re, text, s, b) ==
  IF s > Len(text) THEN NoMatch
  ELSE SearchStep(re, text, s, b, MatchAt(re, text, s, b))

\* A search that only accepts a match starting at the first position.
regex_search_anchored(re, text, pos) == MatchAt(re, text, pos, pos)

\* std::regex_search(text.data() + pos, text.data() + text.size(), m, re):
\* the leftmost match in [pos, size]; position is relative to pos.
regex_search(re, text, pos) == SearchFrom(re, text, pos, pos)

\* ---------------------------------------------------------------- Pattern

\* The source of a pattern as the grammar data carries it: a regular
\* expression text that std::regex either compiles (valid) or rejects.
PatternRaw(valid, re, lookbehind, greedy, alias, inside) ==
  [valid |-> valid, re |-> re, lookbehind |-> lookbehind, greedy |-> greedy,
   alias |-> alias, inside |-> inside]

\* "$^", the expression a pattern falls back to when its source does not
\* compile.
NeverRegex == Regex(FALSE, FALSE, <<>>, <<EOL, BOL>>)

\* Pattern::Pattern with the greedy flag of the source dropped.
PatternNeverGreedy(raw) ==
  [m_regex |-> IF raw.valid THEN raw.re ELSE NeverRegex,
   m_lookbehind |-> raw.lookbehind, m_greedy |-> FALSE,
   m_alias |-> raw.alias, m_inside |-> raw.inside]

\* Pattern::Pattern: compiles the source; a regex_error is caught and the
\* pattern keeps the fallback expression.  Nothing is thrown.
Pattern(raw) ==
  [m_regex |-> IF raw.valid THEN raw.re ELSE NeverRegex,
   m_lookbehind |-> raw.lookbehind, m_greedy |-> raw.greedy,
   m_alias |-> raw.alias, m_inside |-> raw.inside]

\* The result of Pattern::match once the search has returned m.
matchResult(p, success, pos, text, m) ==
  IF m.matched
  THEN IF p.m_lookbehind /\ m.g1matched
       THEN [success |-> TRUE, pos |-> pos + m.position + m.g1length,
             str |-> substr(text, pos + m.position + m.g1length,
                            m.length - m.g1length)]
       ELSE [success |-> TRUE, pos |-> pos + m.position,
             str |-> substr(text, pos + m.position, m.length)]
  ELSE [success |-> success, pos |-> pos, str |-> <<>>]

\* Pattern::match without the lookbehind adjustment: the full match is
\* returned whatever group 1 matched.
matchNoLookbehind(p, success, pos, text) ==
  matchResult([p EXCEPT !.m_lookbehind = FALSE], success, pos, text,
              regex_search(p.m_regex, text, pos))

\* Pattern::match(success, pos, text): success and pos are in/out
\* parameters, str is the returned view.  On a match success is set, pos
\* moves to the start of the match, past group 1 when the pattern is a
\* lookbehind one and the group matched, and the view is the match without
\* that prefix.  On a failed search neither parameter is written and the
\* view is empty.
match(p, success, pos, text) ==
  matchResult(p, success, pos, text, regex_search(p.m_regex, text, pos))

\* ----------------------------------------------------------- grammar data

NoGrammar == ""

NoAlias == <<>>

\* GrammarToken(name, patterns): a token type and its patterns in
\* declaration order.
GrammarToken(name, patterns) == [m_name |-> name, m_patterns |-> patterns]

Plain(re) == Pattern(PatternRaw(TRUE, re, FALSE, FALSE, NoAlias, NoGrammar))

ReAB == Regex(FALSE, FALSE, <<>>, <<Lit("a"), Lit("b")>>)

ReA == Regex(FALSE, FALSE, <<>>, <<Lit("a")>>)

ReB == Regex(FALSE, FALSE, <<>>, <<Lit("b")>>)

ReColon == Regex(FALSE, FALSE, <<>>, <<Lit(":")>>)

\* (::)x, the first group emulating a lookbehind.
ReLookbehind == Regex(TRUE, FALSE, <<Lit(":"), Lit(":")>>, <<Lit("x")>>)

\* "[ab]*"
ReQuoted == Regex(FALSE, FALSE, <<>>, <<Lit(QUOTE), Cls({"a", "b"}, "*"), Lit(QUOTE)>>)

\* (:)a*, the first group emulating a lookbehind: after the group the
\* match may be empty.
ReLbAStar == Regex(TRUE, FALSE, <<Lit(":")>>, <<Cls({"a"}, "*")>>)

\* a*, which matches the empty string everywhere.
ReAStar == Regex(FALSE, FALSE, <<>>, <<Cls({"a"}, "*")>>)

\* (:)?x, a first group that need not take part in the match.
ReOptLb == Regex(TRUE, TRUE, <<Lit(":")>>, <<Lit("x")>>)

\* Grammar of language "prio": type A (ab) declared before type B (a).
GrammarPrio ==
  << GrammarToken(<<"A">>, <<Plain(ReAB)>>),
     GrammarToken(<<"B">>, <<Plain(ReA)>>) >>

\* Grammar of language "lb": a lookbehind pattern, then a plain one.
GrammarLb ==
  << GrammarToken(<<"L">>, <<Pattern(PatternRaw(TRUE, ReLookbehind, TRUE, FALSE,
                                                 NoAlias, NoGrammar))>>),
     GrammarToken(<<"K">>, <<Pattern(PatternRaw(TRUE, ReColon, FALSE, FALSE,
                                                 <<"p">>, NoGrammar))>>) >>

\* Grammar of language "nest": a quoted string re-tokenized by "prio".
GrammarNest ==
  << GrammarToken(<<"S">>, <<Pattern(PatternRaw(TRUE, ReQuoted, FALSE, FALSE,
                                                 NoAlias, "prio"))>>) >>

\* Grammar of language "nestlb": a lookbehind pattern whose match is
\* re-tokenized by "prio".
GrammarNestLb ==
  << GrammarToken(<<"N">>, <<Pattern(PatternRaw(TRUE, ReLbAStar, TRUE, FALSE,
                                                 NoAlias, "prio"))>>) >>

\* Grammar of language "greedy": a greedy a, then a plain b.
GrammarGreedy ==
  << GrammarToken(<<"G">>, <<Pattern(PatternRaw(TRUE, ReA, FALSE, TRUE,
                                                 NoAlias, NoGrammar))>>),
     GrammarToken(<<"B">>, <<Plain(ReB)>>) >>

\* Grammar of language "empty": a pattern matching the empty string, and a
\* pattern whose source does not compile, before a plain one.
GrammarEmpty ==
  << GrammarToken(<<"E">>, <<Plain(ReAStar)>>),
     GrammarToken(<<"X">>, <<Pattern(PatternRaw(FALSE, ReA, FALSE, FALSE,
                                                 NoAlias, NoGrammar))>>),
     GrammarToken(<<"B">>, <<Plain(ReB)>>) >>

\* The registry the first valid payload deserializes to.
Registry1 ==
  [l \in {"prio", "lb", "nest", "nestlb", "greedy", "empty"} |->
     CASE l = "prio"   -> GrammarPrio
       [] l = "lb"     -> GrammarLb
       [] l = "nest"   -> GrammarNest
       [] l = "nestlb" -> GrammarNestLb
       [] l = "greedy" -> GrammarGreedy
       [] l = "empty"  -> GrammarEmpty]

\* The registry of a second valid payload: "prio" declares B before A.
Registry2 ==
  [l \in {"prio"} |->
     << GrammarToken(<<"B">>, <<Plain(ReA)>>),
        GrammarToken(<<"A">>, <<Plain(ReAB)>>) >>]

\* Language identifiers passed to tokenize; "zz" is in no registry.
Languages == {"prio", "lb", "nest", "nestlb", "greedy", "empty", "zz"}

\* ------------------------------------------------------------- token list

\* Text(value): a leaf holding unclassified text.
Text(value) ==
  [syntax |-> FALSE, type |-> <<>>, alias |-> <<>>, value |-> value, children |-> <<>>]

\* Syntax(type, children, alias): a classified node; children is a token
\* list (one Text node for a plain match).
Syntax(type, children, alias) ==
  [syntax |-> TRUE, type |-> type, alias |-> alias, value |-> <<>>, children |-> children]

\* The text of the leaves of a token list, in tree order.
RECURSIVE LeafText(_)
LeafText(tokens) ==
  IF tokens = <<>> THEN <<>>
  ELSE LET t == Head(tokens)
       IN  (IF t.syntax THEN LeafText(t.children) ELSE t.value) \o LeafText(Tail(tokens))

\* -------------------------------------------------------------- tokenizer

\* The rules of a grammar in declaration order: types in order, and the
\* patterns of each type in order.
RECURSIVE RulesOf(_, _, _)
RulesOf(grammar, ti, pj) ==
  IF ti > Len(grammar) THEN <<>>
  ELSE IF pj > Len(grammar[ti].m_patterns) THEN RulesOf(grammar, ti + 1, 1)
  ELSE <<[type |-> grammar[ti].m_name, pat |-> grammar[ti].m_patterns[pj]]>>
         \o RulesOf(grammar, ti, pj + 1)

RECURSIVE FirstRule(_, _, _, _, _)

\* FirstRuleStep without the test for an empty match at the cursor.
FirstRuleStepNoGuard(rules, k, text, cursor, guard, m) ==
  IF m.success
  THEN [found |-> TRUE, k |-> k, pos |-> m.pos, str |-> m.str, guard |-> guard]
  ELSE FirstRule(rules, k + 1, text, cursor, guard \/ m.success)

\* FirstRule once rule k's pattern has returned m.
FirstRuleStep(rules, k, text, cursor, guard, m) ==
  IF m.success /\ ~(m.str = <<>> /\ m.pos = cursor)
  THEN [found |-> TRUE, k |-> k, pos |-> m.pos, str |-> m.str, guard |-> guard]
  ELSE FirstRule(rules, k + 1, text, cursor, guard \/ m.success)

\* The first rule, from rule k on, whose pattern matches at or after the
\* cursor.  A match of an empty span at the cursor itself counts as no
\* match; guard records that one occurred.
FirstRule(rules, k, text, cursor, guard) ==
  IF k > Len(rules)
  THEN [found |-> FALSE, k |-> 0, pos |-> cursor, str |-> <<>>, guard |-> guard]
  ELSE FirstRuleStep(rules, k, text, cursor, guard,
                     match(rules[k].pat, FALSE, cursor, text))

RECURSIVE GreedyEnd(_, _, _)

GreedyEndStep(pat, text, e, m) ==
  IF m.success /\ m.pos = e /\ m.str # <<>>
  THEN GreedyEnd(pat, text, e + Len(m.str))
  ELSE e

\* Greedy extension: the end of the span after merging every further match
\* of the same pattern that starts exactly where the span ends.
GreedyEnd(pat, text, e) == GreedyEndStep(pat, text, e, match(pat, FALSE, e, text))

RECURSIVE Scan(_, _, _, _)

\* The tokens for a winning match of rule over [from, e), the cursor before
\* it: the gap as Text, the match as Syntax (re-tokenized by the nested
\* grammar when the pattern carries one), then the scan after the match.
Emit(reg, gname, text, cursor, rule, from, e) ==
  (IF from > cursor THEN <<Text(SubSeq(text, cursor + 1, from))>> ELSE <<>>)
    \o <<Syntax(rule.type,
                IF rule.pat.m_inside # NoGrammar /\ rule.pat.m_inside \in DOMAIN reg
                THEN Scan(reg, rule.pat.m_inside, SubSeq(text, from + 1, e), 0)
                ELSE <<Text(SubSeq(text, from + 1, e))>>,
                rule.pat.m_alias)>>
    \o Scan(reg, gname, text, e)

\* One pass of the scan loop once the winning rule w is known.  A greedy
\* pattern is extended before the token is built.  With no match the rest
\* is one Text token; after an empty match at the cursor one character is
\* emitted as Text and the cursor moves by one.
ScanStep(reg, gname, text, cursor, rules, w) ==
  IF w.found
  THEN Emit(reg, gname, text, cursor, rules[w.k], w.pos,
            IF rules[w.k].pat.m_greedy
            THEN GreedyEnd(rules[w.k].pat, text, w.pos + Len(w.str))
            ELSE w.pos + Len(w.str))
  ELSE IF w.guard
  THEN <<Text(<<text[cursor + 1]>>)>> \o Scan(reg, gname, text, cursor + 1)
  ELSE <<Text(SubSeq(text, cursor + 1, Len(text)))>>

ScanRules(reg, gname, text, cursor, rules) ==
  ScanStep(reg, gname, text, cursor, rules, FirstRule(rules, 1, text, cursor, FALSE))

\* The scan loop of tokenize(text, grammarTable) from the cursor to the end
\* of the text.
Scan(reg, gname, text, cursor) ==
  IF cursor >= Len(text) THEN <<>>
  ELSE ScanRules(reg, gname, text, cursor, RulesOf(reg[gname], 1, 1))

\* SyntaxHighlighter::tokenize(code, language): the language is looked up
\* in the registry; an unknown language gives the text as one Text token.
tokenize(reg, code, language) ==
  IF language \notin DOMAIN reg THEN <<Text(code)>>
  ELSE Scan(reg, language, code, 0)

\* ------------------------------------------------------------- serializer

\* escapeJson without the case for the double quote.
RECURSIVE escapeJsonNoQuote(_)
escapeJsonNoQuote(str) ==
  IF str = <<>> THEN <<>>
  ELSE LET c == Head(str)
       IN  (CASE c = BSL  -> <<BSL, BSL>>
              [] c = "BS" -> <<BSL, "b">>
              [] c = "\f" -> <<BSL, "f">>
              [] c = "\n" -> <<BSL, "n">>
              [] c = "\r" -> <<BSL, "r">>
              [] c = "\t" -> <<BSL, "t">>
              [] OTHER    -> <<c>>) \o escapeJsonNoQuote(Tail(str))

\* HybridLibprisma::escapeJson: the seven cases of the switch; every other
\* character, the remaining control characters included, is copied as is.
RECURSIVE escapeJson(_)
escapeJson(str) ==
  IF str = <<>> THEN <<>>
  ELSE LET c == Head(str)
       IN  (CASE c = QUOTE -> <<BSL, QUOTE>>
              [] c = BSL   -> <<BSL, BSL>>
              [] c = "BS"  -> <<BSL, "b">>
              [] c = "\f"  -> <<BSL, "f">>
              [] c = "\n"  -> <<BSL, "n">>
              [] c = "\r"  -> <<BSL, "r">>
              [] c = "\t"  -> <<BSL, "t">>
              [] OTHER     -> <<c>>) \o escapeJson(Tail(str))

\* "type":"
KeyType == <<QUOTE, "t", "y", "p", "e", QUOTE, ":", QUOTE>>

\* ,"alias":"
KeyAlias == <<",", QUOTE, "a", "l", "i", "a", "s", QUOTE, ":", QUOTE>>

\* ,"content":
KeyContent == <<",", QUOTE, "c", "o", "n", "t", "e", "n", "t", QUOTE, ":">>

TextType == <<"t", "e", "x", "t">>

RECURSIVE tokensToJsonFrom(_, _)
RECURSIVE tokenNodeToJson(_)

\* tokenNodeToJson with the Text branch writing its content unescaped.
tokenNodeToJsonRaw(node) ==
  IF node.syntax
  THEN <<"{">> \o KeyType \o escapeJson(node.type) \o <<QUOTE>>
         \o (IF node.alias # <<>>
             THEN KeyAlias \o escapeJson(node.alias) \o <<QUOTE>> ELSE <<>>)
         \o (IF node.children # <<>>
             THEN KeyContent \o <<"[">> \o tokensToJsonFrom(node.children, TRUE) \o <<"]">>
             ELSE KeyContent \o <<QUOTE, QUOTE>>)
         \o <<"}">>
  ELSE <<"{">> \o KeyType \o TextType \o <<QUOTE>>
         \o KeyContent \o <<QUOTE>> \o node.value \o <<QUOTE>>
         \o <<"}">>

\* HybridLibprisma::tokenNodeToJson: a Syntax node writes its type, its
\* alias when not empty, and its children as an array, or "" when it has
\* none; a Text node writes type "text" and its escaped value.
tokenNodeToJson(node) ==
  IF node.syntax
  THEN <<"{">> \o KeyType \o escapeJson(node.type) \o <<QUOTE>>
         \o (IF node.alias # <<>>
             THEN KeyAlias \o escapeJson(node.alias) \o <<QUOTE>> ELSE <<>>)
         \o (IF node.children # <<>>
             THEN KeyContent \o <<"[">> \o tokensToJsonFrom(node.children, TRUE) \o <<"]">>
             ELSE KeyContent \o <<QUOTE, QUOTE>>)
         \o <<"}">>
  ELSE <<"{">> \o KeyType \o TextType \o <<QUOTE>>
         \o KeyContent \o <<QUOTE>> \o escapeJson(node.value) \o <<QUOTE>>
         \o <<"}">>

\* The loop of tokensToJson: the nodes in order, a comma before each but
\* the first.
tokensToJsonFrom(tokenList, first) ==
  IF tokenList = <<>> THEN <<>>
  ELSE (IF first THEN <<>> ELSE <<",">>) \o tokenNodeToJson(Head(tokenList))
         \o tokensToJsonFrom(Tail(tokenList), FALSE)

\* tokensToJson without the closing bracket.
tokensToJsonUnclosed(tokenList) == <<"[">> \o tokensToJsonFrom(tokenList, TRUE)

\* HybridLibprisma::tokensToJson: [, the nodes, ].
tokensToJson(tokenList) == <<"[">> \o tokensToJsonFrom(tokenList, TRUE) \o <<"]">>

\* ------------------------------------------------------------- JSON.parse

\* A parsed member value: a string or an array of token objects.
StrValue(str) == [isArr |-> FALSE, str |-> str, arr |-> <<>>]

ArrValue(arr) == [isArr |-> TRUE, str |-> <<>>, arr |-> arr]

NoValue == StrValue(<<>>)

\* A parsed token object: the members present and the value of each of
\* type, alias and content (the last occurrence of a repeated key).
WireToken(has, type, alias, content) ==
  [has |-> has, type |-> type, alias |-> alias, content |-> content]

Failed == [ok |-> FALSE, val |-> NoValue, next |-> 0]

\* The character an escape sequence \e stands for ("" when JSON has no
\* such escape; \uXXXX is never written by the serializer and is left out).
Unescape(e) ==
  CASE e = QUOTE -> QUOTE
    [] e = BSL   -> BSL
    [] e = "/"   -> "/"
    [] e = "b"   -> "BS"
    [] e = "f"   -> "\f"
    [] e = "n"   -> "\n"
    [] e = "r"   -> "\r"
    [] e = "t"   -> "\t"
    [] OTHER     -> ""

\* The rest of a JSON string after its opening quote: ends at the first
\* unescaped quote; a raw control character is a SyntaxError.
RECURSIVE ParseStringBody(_, _, _)
ParseStringBody(s, i, acc) ==
  IF i > Len(s) THEN Failed
  ELSE LET c == s[i]
       IN  IF c = QUOTE THEN [ok |-> TRUE, val |-> StrValue(acc), next |-> i + 1]
           ELSE IF c \in ControlChars THEN Failed
           ELSE IF c = BSL
           THEN IF i + 1 > Len(s) \/ Unescape(s[i + 1]) = "" THEN Failed
                ELSE ParseStringBody(s, i + 2, Append(acc, Unescape(s[i + 1])))
           ELSE ParseStringBody(s, i + 1, Append(acc, c))

RECURSIVE ParseArray(_, _)
RECURSIVE ParseElements(_, _, _)
RECURSIVE ParseMembers(_, _, _)

\* A member value: a string or an array.
ParseValue(s, i) ==
  IF i > Len(s) THEN Failed
  ELSE IF s[i] = QUOTE THEN ParseStringBody(s, i + 1, <<>>)
  ELSE IF s[i] = "[" THEN ParseArray(s, i)
  ELSE Failed

KeyOf(str) ==
  IF str = <<"t", "y", "p", "e">> THEN "type"
  ELSE IF str = <<"a", "l", "i", "a", "s">> THEN "alias"
  ELSE IF str = <<"c", "o", "n", "t", "e", "n", "t">> THEN "content"
  ELSE "other"

\* The members of an object from position i on ("key":value, separated by
\* commas, closed by }), added to the token tok.
ParseMembers(s, i, tok) ==
  IF i > Len(s) \/ s[i] # QUOTE THEN Failed
  ELSE LET k == ParseStringBody(s, i + 1, <<>>)
       IN  IF ~k.ok \/ k.next > Len(s) \/ s[k.next] # ":" THEN Failed
           ELSE LET v == ParseValue(s, k.next + 1)
                    key == KeyOf(k.val.str)
                    tok2 == [has |-> tok.has \cup {key},
                             type |-> IF key = "type" THEN v.val ELSE tok.type,
                             alias |-> IF key = "alias" THEN v.val ELSE tok.alias,
                             content |-> IF key = "content" THEN v.val ELSE tok.content]
                IN  IF ~v.ok \/ v.next > Len(s) THEN Failed
                    ELSE IF s[v.next] = "}"
                    THEN [ok |-> TRUE, val |-> tok2, next |-> v.next + 1]
                    ELSE IF s[v.next] = "," THEN ParseMembers(s, v.next + 1, tok2)
                    ELSE Failed

\* An object: {} or { members }.
ParseObject(s, i) ==
  IF i + 1 > Len(s) \/ s[i] # "{" THEN Failed
  ELSE IF s[i + 1] = "}"
  THEN [ok |-> TRUE, val |-> WireToken({}, NoValue, NoValue, NoValue), next |-> i + 2]
  ELSE ParseMembers(s, i + 1, WireToken({}, NoValue, NoValue, NoValue))

\* The elements of an array from position i on, each an object.
ParseElements(s, i, acc) ==
  LET o == ParseObject(s, i)
  IN  IF ~o.ok \/ o.next > Len(s) THEN Failed
      ELSE IF s[o.next] = "]"
      THEN [ok |-> TRUE, val |-> ArrValue(Append(acc, o.val)), next |-> o.next + 1]
      ELSE IF s[o.next] = "," THEN ParseElements(s, o.next + 1, Append(acc, o.val))
      ELSE Failed

ParseArray(s, i) ==
  IF i + 1 > Len(s) \/ s[i] # "[" THEN Failed
  ELSE IF s[i + 1] = "]" THEN [ok |-> TRUE, val |-> ArrValue(<<>>), next |-> i + 2]
  ELSE ParseElements(s, i + 1, <<>>)

\* JSON.parse(jsonString) as Token[]: the token array the text denotes, or
\* a SyntaxError (thrown) when the text is not JSON.
JSONparse(jsonString) ==
  LET r == ParseArray(jsonString, 1)
  IN  IF r.ok /\ r.next = Len(jsonString) + 1
      THEN [thrown |-> FALSE, tokens |-> r.val.arr]
      ELSE [thrown |-> TRUE, tokens |-> <<>>]

\* The parsed form a token list stands for: type "text" and a string for a
\* Text node; type, alias (when there is one) and the array of its
\* children for a Syntax node.
RECURSIVE Wire(_)
Wire(tokens) ==
  IF tokens = <<>> THEN <<>>
  ELSE LET t == Head(tokens)
       IN  <<IF t.syntax
             THEN WireToken(IF t.alias # <<>> THEN {"type", "alias", "content"}
                            ELSE {"type", "content"},
                            StrValue(t.type),
                            IF t.alias # <<>> THEN StrValue(t.alias) ELSE NoValue,
                            ArrValue(Wire(t.children)))
             ELSE WireToken({"type", "content"}, StrValue(TextType), NoValue,
                            StrValue(t.value))>>
           \o Wire(Tail(tokens))

\* flattenTokens(tokens): the tokens whose content is a string, in tree
\* order; a token whose content is an array is replaced by what its
\* content flattens to.
RECURSIVE flattenTokens(_)
flattenTokens(tokens) ==
  IF tokens = <<>> THEN <<>>
  ELSE (IF Head(tokens).content.isArr THEN flattenTokens(Head(tokens).content.arr)
        ELSE <<Head(tokens)>>) \o flattenTokens(Tail(tokens))

\* .map((t) => t.content).join('')
RECURSIVE JoinContents(_)
JoinContents(flat) ==
  IF flat = <<>> THEN <<>> ELSE Head(flat).content.str \o JoinContents(Tail(flat))

\* getPlainText(tokens)
getPlainText(tokens) == JoinContents(flattenTokens(tokens))

\* ------------------------------------------------- splitTokensIntoLines

\* content.split('\n'): the pieces between the newlines, one more than
\* there are newlines, empty pieces included.
RECURSIVE splitFrom(_, _, _)
splitFrom(str, i, piece) ==
  IF i > Len(str) THEN <<piece>>
  ELSE IF str[i] = "\n" THEN <<piece>> \o splitFrom(str, i + 1, <<>>)
  ELSE splitFrom(str, i + 1, Append(piece, str[i]))

split(str) == splitFrom(str, 1, <<>>)

\* lines and currentLine before the first token.
NoLines == [lines |-> <<>>, currentLine |-> <<>>]

\* lines.push(currentLine); currentLine = [];
newLine(st) == [lines |-> Append(st.lines, st.currentLine), currentLine |-> <<>>]

\* The push of a part without the test for an empty one.
pushPartAlways(token, part, currentLine) ==
  Append(currentLine, [token EXCEPT !.content = StrValue(part)])

\* if (part) currentLine.push({ ...token, content: part });
pushPart(token, part, currentLine) ==
  IF part # <<>> THEN Append(currentLine, [token EXCEPT !.content = StrValue(part)])
  ELSE currentLine

\* One call of the parts.forEach callback, st being the state after the
\* test of index.
partStep(token, part, st) ==
  [st EXCEPT !.currentLine = pushPart(token, part, st.currentLine)]

\* parts.forEach((part, index) => ...), from the part at place i on (the
\* first part is at place 1, index 0).
RECURSIVE forEachPart(_, _, _, _)
forEachPart(token, parts, i, st) ==
  IF i > Len(parts) THEN st
  ELSE forEachPart(token, parts, i + 1,
                   partStep(token, parts[i], IF i > 1 THEN newLine(st) ELSE st))

RECURSIVE forEachToken(_, _, _)

\* processToken(token): a token with string content is cut at the
\* newlines; one with array content has its content processed in order.
processToken(token, st) ==
  IF ~token.content.isArr THEN forEachPart(token, split(token.content.str), 1, st)
  ELSE forEachToken(token.content.arr, 1, st)

\* tokens.forEach(processToken)
forEachToken(tokens, i, st) ==
  IF i > Len(tokens) THEN st
  ELSE forEachToken(tokens, i + 1, processToken(tokens[i], st))

\* The end of splitTokensIntoLines with the last line pushed in any case.
finalLinesAlways(st) == Append(st.lines, st.currentLine)

\* if (currentLine.length > 0) lines.push(currentLine); return lines;
finalLines(st) ==
  IF Len(st.currentLine) > 0 THEN Append(st.lines, st.currentLine) ELSE st.lines

\* splitTokensIntoLines(tokens)
splitTokensIntoLines(tokens) == finalLines(forEachToken(tokens, 1, NoLines))

\* ------------------------------------------------ getOptimalRenderMode

SimpleLimit == 50

OptimizedLimit == 500

VirtualizedLimit == 2000

\* getOptimalRenderMode(lineCount)
getOptimalRenderMode(lineCount) ==
  IF lineCount < SimpleLimit THEN "simple"
  ELSE IF lineCount < OptimizedLimit THEN "optimized"
  ELSE IF lineCount < VirtualizedLimit THEN "virtualized"
  ELSE "native"

\* The renderers SyntaxHighlighter has.
Renderers == {"simple", "optimized", "virtualized"}

\* The renderers SyntaxHighlighter mounts for props renderMode and lines
\* of the given length: the one whose name is the mode.
Mounted(renderMode, lineCount) ==
  {r \in Renderers :
     r = (IF renderMode = "auto" THEN getOptimalRenderMode(lineCount) ELSE renderMode)}

\* The leaf text of a parsed token array (flattenTokens / getPlainText).
RECURSIVE WireLeafText(_)
WireLeafText(tokens) ==
  IF tokens = <<>> THEN <<>>
  ELSE LET t == Head(tokens)
       IN  (IF t.content.isArr THEN WireLeafText(t.content.arr) ELSE t.content.str)
             \o WireLeafText(Tail(tokens))

\* ---------------------------------------------------------------- payloads

Null == "null"

\* The base64 alphabet, in the order of the decoding table T.
B64Chars ==
  << "A", "B", "C", "D", "E", "F", "G", "H", "I", "J", "K", "L", "M",
     "N", "O", "P", "Q", "R", "S", "T", "U", "V", "W", "X", "Y", "Z",
     "a", "b", "c", "d", "e", "f", "g", "h", "i", "j", "k", "l", "m",
     "n", "o", "p", "q", "r", "s", "t", "u", "v", "w", "x", "y", "z",
     "0", "1", "2", "3", "4", "5", "6", "7", "8", "9", "+", "/" >>

\* T[c]: the six-bit value of an alphabet character, -1 for any other.
T(c) ==
  IF \E i \in 1..Len(B64Chars) : B64Chars[i] = c
  THEN (CHOOSE i \in 1..Len(B64Chars) : B64Chars[i] = c) - 1
  ELSE -1

\* (val << 6) + t with a value that does not fit clamped to INT_MAX.
ShiftAddClamped(val, t) ==
  IF val \div (2 ^ 25) # 0 THEN 2147483647 ELSE (val * 64) + t

\* (val << 6) + t on a 32-bit int in two's complement: bits 0 to 24 of
\* val move up by six, bit 25 becomes the sign bit, higher bits are lost.
ShiftAdd(val, t) ==
  IF (val \div (2 ^ 25)) % 2 = 1
  THEN ((((val % (2 ^ 25)) * 64) - (2 ^ 30)) - (2 ^ 30)) + t
  ELSE ((val % (2 ^ 25)) * 64) + t

RECURSIVE base64_decodeFrom(_, _, _, _)

\* The loop body once val and valb have been updated: a byte is pushed
\* when eight bits are available.
base64_decodeStep(in, i, val, valb) ==
  IF valb >= 0
  THEN <<(val \div (2 ^ valb)) % 256>> \o base64_decodeFrom(in, i + 1, val, valb - 8)
  ELSE base64_decodeFrom(in, i + 1, val, valb)

\* The loop of base64_decode from character i on: it ends at the first
\* character outside the alphabet.
base64_decodeFrom(in, i, val, valb) ==
  IF i > Len(in) \/ T(in[i]) = -1 THEN <<>>
  ELSE base64_decodeStep(in, i, ShiftAdd(val, T(in[i])), valb + 6)

\* HybridLibprisma::base64_decode: the bytes the leading alphabet
\* characters of the text encode.
base64_decode(in) == base64_decodeFrom(in, 1, 0, -8)

\* What zlib's inflate makes of a gzip stream, the format reduced to three
\* bytes: a header byte (31), a data byte (1 or 2, inflating to the grammar
\* data "P1" or "P2") and an end byte (0).  A stream that stops early ends
\* with Z_BUF_ERROR and no message; a wrong byte ends with Z_DATA_ERROR and
\* a message; bytes after the end byte are not read.
inflate(data) ==
  IF Len(data) = 0 THEN [ret |-> "Z_BUF_ERROR", msg |-> Null, out |-> Null]
  ELSE IF data[1] # 31
  THEN [ret |-> "Z_DATA_ERROR", msg |-> "incorrect header check", out |-> Null]
  ELSE IF Len(data) = 1 THEN [ret |-> "Z_BUF_ERROR", msg |-> Null, out |-> Null]
  ELSE IF data[2] \notin {1, 2}
  THEN [ret |-> "Z_DATA_ERROR", msg |-> "invalid block type", out |-> Null]
  ELSE IF Len(data) = 2 THEN [ret |-> "Z_BUF_ERROR", msg |-> Null, out |-> Null]
  ELSE IF data[3] # 0
  THEN [ret |-> "Z_DATA_ERROR", msg |-> "incorrect data check", out |-> Null]
  ELSE [ret |-> "Z_STREAM_END", msg |-> Null,
        out |-> IF data[2] = 1 THEN "P1" ELSE "P2"]

\* gzip_decompress once inflate has returned r: the inflated data, or a
\* std::runtime_error whose text is built from zs.msg; concatenating a
\* null zs.msg is undefined (msgNull).
gzip_decompressResult(r) ==
  IF r.ret # "Z_STREAM_END"
  THEN [thrown |-> TRUE, msgNull |-> r.msg = Null, out |-> Null]
  ELSE [thrown |-> FALSE, msgNull |-> FALSE, out |-> r.out]

\* HybridLibprisma::gzip_decompress.
gzip_decompress(data) == gzip_decompressResult(inflate(data))

\* Grammar payloads: the base64 text of the streams 31 1 0 and 31 2 0.
PayloadP1 == <<"H", "w", "E", "A">>

PayloadP2 == <<"H", "w", "I", "A">>

\* The base64 text of 0 1 0, a stream with a wrong header.
PayloadCorrupt == <<"A", "A", "E", "A">>

\* The base64 text of 31 1, a stream that stops before its end.
PayloadTruncated == <<"H", "w", "E", "=">>

\* A valid payload with a character outside the alphabet in it.
PayloadCut == <<"H", "w", "!", "A">>

\* A valid payload followed by characters outside the alphabet.
PayloadTrailing == <<"H", "w", "E", "A", "!", "x">>

PayloadEmpty == <<>>

\* Payloads handed to loadGrammars: two valid ones and a corrupt one.
Payloads == {PayloadP1, PayloadP2, PayloadCorrupt}

\* All payloads, for the calls through the platform modules.
LoadPayloads ==
  Payloads \cup {PayloadTruncated, PayloadCut, PayloadTrailing, PayloadEmpty}

\* The payloads that are the base64 text of a complete gzip stream.
ValidPayload(g) == g \in {PayloadP1, PayloadP2}

\* The registry a SyntaxHighlighter built from decompressed data holds.
RegistryOf(h) == IF h = "P1" THEN Registry1 ELSE Registry2

\* ------------------------------------------------------------------- state

VARIABLES
  m_highlighter,  \* the SyntaxHighlighter of the instance, or Null
  ret,            \* how the last loadGrammars call ended
  pc,             \* where the tokenize call in progress stands
  code,           \* its arguments
  language,
  tree,           \* the TokenList the native call built (<<>> when none)
  json,           \* the text tokenizeToJson returned
  parsed,         \* what JSON.parse made of it
  memo,           \* an earlier call and its result, kept for comparison
  stack,          \* the tokenize calls in progress, the innermost last
  result,         \* the token list the outermost call returned
  mcall,          \* the last Pattern::match call: arguments and result
  lcall,          \* the last loadGrammars call through a platform module
  th,             \* the call each thread is making on the instance
  hist,           \* what the loadGrammars calls of the threads have done
  js,             \* the JavaScript module and the native calls it has made
  b64,            \* the last base64_decode call: argument and result
  view            \* the last call of a component or utility: arguments and result

callVars == <<m_highlighter, ret, pc, code, language, tree, json, parsed, memo>>

scanVars == <<stack, result>>

matchVars == <<mcall>>

loadVars == <<lcall>>

threadVars == <<th, hist>>

jsVars == <<js>>

b64Vars == <<b64>>

viewVars == <<view>>

utilVars == <<b64Vars, viewVars>>

vars == <<callVars, scanVars, matchVars, loadVars, threadVars, jsVars, utilVars>>

\* What the actions of each part leave unchanged.
notCall == <<scanVars, matchVars, loadVars, threadVars, jsVars, utilVars>>

notScan == <<callVars, matchVars, loadVars, threadVars, jsVars, utilVars>>

notMatch == <<callVars, scanVars, loadVars, threadVars, jsVars, utilVars>>

notThread ==
  <<ret, pc, code, language, tree, json, parsed, memo, scanVars, matchVars, loadVars,
    jsVars, utilVars>>

notJs == <<memo, scanVars, matchVars, loadVars, threadVars, utilVars>>

notB64 == <<callVars, scanVars, matchVars, loadVars, threadVars, jsVars, viewVars>>

notView == <<callVars, scanVars, matchVars, loadVars, threadVars, jsVars, b64Vars>>

NoParse == [thrown |-> FALSE, tokens |-> <<>>]

NoMemo == [set |-> FALSE, code |-> <<>>, language |-> "", tree |-> <<>>, json |-> <<>>]

NoResult == [set |-> FALSE, gname |-> "", text |-> <<>>, tokens |-> <<>>]

\* Threads that call the instance.
Threads == {"T1", "T2"}

\* A thread that is in no call.
Idle ==
  [pc |-> "idle", g |-> <<>>, c |-> <<>>, after |-> FALSE, obs |-> Null,
   partial |-> FALSE, freed |-> FALSE, tree |-> <<>>, json |-> <<>>, out |-> ""]

\* The JavaScript module before it is evaluated: no native object, no
\* native call made.
NoModule ==
  [phase |-> "unevaluated", hybrid |-> FALSE, loads |-> 0, first |-> "",
   tokenized |-> FALSE, thrown |-> FALSE]

\* No base64_decode call made.
NoB64 == [set |-> FALSE, in |-> <<>>, out |-> <<>>]

\* No component rendered and no utility called.
NoView ==
  [set |-> FALSE, kind |-> "", renderMode |-> "", lineCount |-> 0, mounted |-> {},
   tokens |-> <<>>, lines |-> <<>>]

NoHist == [prev |-> Null, builds |-> 0, assigns |-> 0, crashed |-> FALSE]

NoLoadCall ==
  [set |-> FALSE, platform |-> "", grammars |-> <<>>, was |-> Null, seen |-> ""]

NoMatchCall ==
  [set |-> FALSE, raw |-> PatternRaw(TRUE, ReA, FALSE, FALSE, NoAlias, NoGrammar),
   success |-> FALSE, pos |-> 0, text |-> <<>>,
   out |-> [success |-> FALSE, pos |-> 0, str |-> <<>>]]

Init ==
  /\ m_highlighter = Null
  /\ ret = "none"
  /\ pc = "idle"
  /\ code = <<>>
  /\ language = ""
  /\ tree = <<>>
  /\ json = <<>>
  /\ parsed = NoParse
  /\ memo = NoMemo
  /\ stack = <<>>
  /\ result = NoResult
  /\ mcall = NoMatchCall
  /\ lcall = NoLoadCall
  /\ th = [t \in Threads |-> Idle]
  /\ hist = NoHist
  /\ js = NoModule
  /\ b64 = NoB64
  /\ view = NoView

\* The guard of loadGrammars with the test left out.
AlreadyLoadedNever(h) == FALSE

\* if (m_highlighter) return;
AlreadyLoaded(h) == h # Null

\* The test of tokenizeToJson taken as always true.
NotLoadedAlways(h) == TRUE

\* if (!m_highlighter) return "[]";
NotLoaded(h) == h = Null

\* HybridLibprisma::loadGrammars(grammars): returns at once when a
\* highlighter exists; otherwise decodes and decompresses the payload and
\* builds the highlighter.  An exception of gzip_decompress leaves
\* m_highlighter as it was.
\* ret is how the call ended: at the guard (noop), with the highlighter
\* built, with the exception of gzip_decompress (error), or, where the
\* text of that exception is built from a null zs.msg (undefined), with
\* the exception or with the process crashed.
loadGrammarsBody(grammars) ==
  IF AlreadyLoaded(m_highlighter)
  THEN /\ ret' = "noop"
       /\ UNCHANGED m_highlighter
  ELSE LET decompressed == gzip_decompress(base64_decode(grammars))
       IN  IF decompressed.thrown
           THEN /\ ret' \in (IF decompressed.msgNull THEN {"error", "crash"}
                              ELSE {"error"})
                /\ UNCHANGED m_highlighter
           ELSE /\ ret' = "built"
                /\ m_highlighter' = decompressed.out

\* The call made on the HybridLibprisma object itself.
loadGrammars(grammars) ==
  /\ pc = "idle"
  /\ loadGrammarsBody(grammars)
  /\ pc' = IF ret' = "crash" THEN "crashed" ELSE pc
  /\ UNCHANGED <<code, language, tree, json, parsed, memo>>
  /\ UNCHANGED notCall

\* HybridLibprisma::tokenizeToJson(code, language): "[]" without a
\* highlighter, otherwise the serialized token list.
tokenizeToJson(c, l) ==
  /\ pc = "idle"
  /\ pc' = "json"
  /\ code' = c
  /\ language' = l
  /\ IF NotLoaded(m_highlighter)
     THEN /\ tree' = <<>>
          /\ json' = <<"[", "]">>
     ELSE LET tokens == tokenize(RegistryOf(m_highlighter), c, l)
          IN  /\ tree' = tokens
              /\ json' = tokensToJson(tokens)
  /\ UNCHANGED <<m_highlighter, ret, parsed, memo>>
  /\ UNCHANGED notCall

\* tokenize (JavaScript), after the native call: JSON.parse(jsonString).
Parse ==
  /\ pc = "json"
  /\ pc' = "done"
  /\ parsed' = JSONparse(json)
  /\ UNCHANGED <<m_highlighter, ret, code, language, tree, json, memo>>
  /\ UNCHANGED notCall

\* tokenize (JavaScript) returns to its caller (or the SyntaxError of
\* JSON.parse reaches it).
Return ==
  /\ pc = "done"
  /\ pc' = "idle"
  /\ code' = <<>>
  /\ language' = ""
  /\ tree' = <<>>
  /\ json' = <<>>
  /\ parsed' = NoParse
  /\ UNCHANGED <<m_highlighter, ret, memo>>
  /\ UNCHANGED notCall

\* The caller keeps the result of the call for a later comparison.
Remember ==
  /\ pc = "done"
  /\ m_highlighter # Null
  /\ memo' = [set |-> TRUE, code |-> code, language |-> language, tree |-> tree,
              json |-> json]
  /\ UNCHANGED <<m_highlighter, ret, pc, code, language, tree, json, parsed>>
  /\ UNCHANGED notCall

Next ==
  \/ \E g \in Payloads : loadGrammars(g)
  \/ \E l \in Languages : \E c \in Codes(l) : tokenizeToJson(c, l)
  \/ Parse
  \/ Return

Spec == Init /\ [][Next]_vars

\* A second specification, for comparing two calls: source texts over two
\* characters, one known and one unknown language, and a caller that may
\* keep a result.
DetCodes == SeqsUpTo({"a", "b"}, MaxLen)

DetLanguages == {"prio", "zz"}

NextDet ==
  \/ \E g \in Payloads : loadGrammars(g)
  \/ \E c \in DetCodes, l \in DetLanguages : tokenizeToJson(c, l)
  \/ Parse
  \/ Return
  \/ Remember

SpecDet == Init /\ [][NextDet]_vars

\* ----------------------------------------------------- scan loop, by steps

\* The deepest nesting of tokenize calls followed.
MaxDepth == 3

\* Grammar of language "self": a pattern whose match is re-tokenized by
\* the grammar itself.
GrammarSelf ==
  << GrammarToken(<<"R">>, <<Pattern(PatternRaw(TRUE, ReA, FALSE, FALSE,
                                                 NoAlias, "self"))>>) >>

\* The registry of the step-wise scan: the first registry and "self".
RegistryScan ==
  [l \in DOMAIN Registry1 \cup {"self"} |->
     IF l = "self" THEN GrammarSelf ELSE Registry1[l]]

\* The Syntax token of a call that waits for its nested call: type, alias
\* and the end of its span.
NoPend == [on |-> FALSE, type |-> <<>>, alias |-> <<>>, e |-> 0]

\* A tokenize call in progress: grammar, text, cursor and output list.
Frame(gname, text) ==
  [gname |-> gname, text |-> text, cursor |-> 0, out |-> <<>>, pend |-> NoPend]

Top == stack[Len(stack)]

FrameRules(f) == RulesOf(RegistryScan[f.gname], 1, 1)

\* Steps 2 and 3: the winning rule at the cursor of call f.
Winner(f) == FirstRule(FrameRules(f), 1, f.text, f.cursor, FALSE)

\* Step 5: the end of the winning span, after greedy extension.
SpanEnd(f, w, pat) ==
  IF pat.m_greedy THEN GreedyEnd(pat, f.text, w.pos + Len(w.str))
  ELSE w.pos + Len(w.str)

\* Step 3: the text between the cursor and the match.
Gap(f, from) ==
  IF from > f.cursor THEN <<Text(SubSeq(f.text, f.cursor + 1, from))>> ELSE <<>>

Nests(pat) == pat.m_inside # NoGrammar /\ pat.m_inside \in DOMAIN RegistryScan

Scanning == stack # <<>> /\ Top.cursor < Len(Top.text)

\* SyntaxHighlighter::tokenize is called with a text and a language of the
\* registry.
Start(c, l) ==
  /\ stack = <<>>
  /\ ~result.set
  /\ stack' = <<Frame(l, c)>>
  /\ UNCHANGED <<notScan, result>>

IterMatchWith(f, w, rule, e) ==
  /\ w.found
  /\ ~Nests(rule.pat)
  /\ stack' = [stack EXCEPT ![Len(stack)] =
                 [f EXCEPT !.out = @ \o Gap(f, w.pos)
                                     \o <<Syntax(rule.type,
                                                 <<Text(SubSeq(f.text, w.pos + 1, e))>>,
                                                 rule.pat.m_alias)>>,
                           !.cursor = e]]

\* Steps 4 and 6, plain match: the gap and the token are emitted and the
\* cursor moves to the end of the span.
IterMatch ==
  /\ Scanning
  /\ Winner(Top).found
  /\ IterMatchWith(Top, Winner(Top), FrameRules(Top)[Winner(Top).k],
                   SpanEnd(Top, Winner(Top), FrameRules(Top)[Winner(Top).k].pat))
  /\ UNCHANGED <<notScan, result>>

IterNestedWith(f, w, rule, e) ==
  /\ w.found
  /\ Nests(rule.pat)
  /\ stack' = Append([stack EXCEPT ![Len(stack)] =
                        [f EXCEPT !.out = @ \o Gap(f, w.pos),
                                  !.pend = [on |-> TRUE, type |-> rule.type,
                                            alias |-> rule.pat.m_alias, e |-> e]]],
                     Frame(rule.pat.m_inside, SubSeq(f.text, w.pos + 1, e)))

\* Step 4, nested grammar: the gap is emitted and tokenize is called on the
\* matched text with the nested grammar.
IterNested ==
  /\ Scanning
  /\ Len(stack) < MaxDepth
  /\ Winner(Top).found
  /\ IterNestedWith(Top, Winner(Top), FrameRules(Top)[Winner(Top).k],
                    SpanEnd(Top, Winner(Top), FrameRules(Top)[Winner(Top).k].pat))
  /\ UNCHANGED <<notScan, result>>

\* Step 8: only empty matches at the cursor; one character is emitted as
\* Text and the cursor moves by one.
IterEmpty ==
  /\ Scanning
  /\ ~Winner(Top).found
  /\ Winner(Top).guard
  /\ stack' = [stack EXCEPT ![Len(stack)] =
                 [Top EXCEPT !.out = @ \o <<Text(<<Top.text[Top.cursor + 1]>>)>>,
                             !.cursor = @ + 1]]
  /\ UNCHANGED <<notScan, result>>

\* Step 7 taken one character at a time.
IterRestByOne ==
  /\ Scanning
  /\ ~Winner(Top).found
  /\ ~Winner(Top).guard
  /\ stack' = [stack EXCEPT ![Len(stack)] =
                 [Top EXCEPT !.out = @ \o <<Text(<<Top.text[Top.cursor + 1]>>)>>,
                             !.cursor = @ + 1]]
  /\ UNCHANGED <<notScan, result>>

\* Step 7: no rule matches; the rest of the text is one Text token.
IterRest ==
  /\ Scanning
  /\ ~Winner(Top).found
  /\ ~Winner(Top).guard
  /\ stack' = [stack EXCEPT ![Len(stack)] =
                 [Top EXCEPT !.out = @ \o <<Text(SubSeq(Top.text, Top.cursor + 1,
                                                        Len(Top.text)))>>,
                             !.cursor = Len(Top.text)]]
  /\ UNCHANGED <<notScan, result>>

\* A nested call returns: its token list becomes the children of the
\* waiting token and the caller's cursor moves to the end of the span.
FrameReturn ==
  /\ Len(stack) > 1
  /\ Top.cursor >= Len(Top.text)
  /\ LET caller == stack[Len(stack) - 1]
     IN  stack' = [SubSeq(stack, 1, Len(stack) - 1) EXCEPT ![Len(stack) - 1] =
                     [caller EXCEPT !.out = @ \o <<Syntax(caller.pend.type, Top.out,
                                                          caller.pend.alias)>>,
                                    !.cursor = caller.pend.e,
                                    !.pend = NoPend]]
  /\ UNCHANGED <<notScan, result>>

\* The outermost call returns its token list.
Finish ==
  /\ Len(stack) = 1
  /\ Top.cursor >= Len(Top.text)
  /\ result' = [set |-> TRUE, gname |-> Top.gname, text |-> Top.text, tokens |-> Top.out]
  /\ stack' = <<>>
  /\ UNCHANGED notScan

\* The caller has taken the token list.
Collect ==
  /\ result.set
  /\ result' = NoResult
  /\ UNCHANGED <<notScan, stack>>

NextScan ==
  \/ \E l \in DOMAIN RegistryScan : \E c \in Codes(l) : Start(c, l)
  \/ IterMatch
  \/ IterNested
  \/ IterEmpty
  \/ IterRest
  \/ FrameReturn
  \/ Finish
  \/ Collect

SpecScan == Init /\ [][NextScan]_vars

\* ------------------------------------------------- Pattern::match, called

\* Pattern sources handed to the constructor: each expression once as a
\* source that compiles and once as one that does not.
MatchRaws ==
  {PatternRaw(v, re, FALSE, FALSE, NoAlias, NoGrammar) :
     v \in BOOLEAN, re \in {ReA, ReAB, ReAStar}}
    \cup {PatternRaw(v, ReLookbehind, TRUE, FALSE, NoAlias, NoGrammar) : v \in BOOLEAN}
    \cup {PatternRaw(TRUE, ReOptLb, TRUE, FALSE, NoAlias, NoGrammar),
          PatternRaw(TRUE, ReLookbehind, FALSE, FALSE, NoAlias, NoGrammar)}

\* The longest text handed to match.
MaxMatchLen == 3

MatchTexts == SeqsUpTo({"a", ":", "x"}, MaxMatchLen)

\* A caller constructs a Pattern from raw and calls match on it with the
\* out-parameter success, a start position within the text, and the text.
MatchCall(raw, success, pos, text) ==
  /\ ~mcall.set
  /\ mcall' = [set |-> TRUE, raw |-> raw, success |-> success, pos |-> pos,
               text |-> text, out |-> match(Pattern(raw), success, pos, text)]
  /\ UNCHANGED notMatch

\* The caller has used the result.
MatchDone ==
  /\ mcall.set
  /\ mcall' = NoMatchCall
  /\ UNCHANGED notMatch

NextMatch ==
  \/ \E raw \in MatchRaws, success \in BOOLEAN, text \in MatchTexts :
       \E pos \in 0..Len(text) : MatchCall(raw, success, pos, text)
  \/ MatchDone

SpecMatch == Init /\ [][NextMatch]_vars

\* ------------------------------------------- loadGrammars, by platform

\* nitro: the hybrid object called from JavaScript, a C++ exception
\* becoming a JavaScript error; windows: LibprismaModule::LoadGrammars;
\* android: nativeLoadGrammars, which has no handler.
Platforms == {"nitro", "windows", "android"}

\* What the caller of the platform method sees when loadGrammars ended
\* with r: LibprismaModule::LoadGrammars catches the exception and returns;
\* an exception that leaves nativeLoadGrammars ends the process.
Seen(platform, r) ==
  IF r \in {"built", "noop"} THEN "returned"
  ELSE IF r = "crash" THEN "crashed"
  ELSE IF platform = "nitro" THEN "threw"
  ELSE IF platform = "windows" THEN "returned"
  ELSE "crashed"

\* loadGrammars called through the module of a platform.
LoadGrammars(platform, grammars) ==
  /\ pc = "idle"
  /\ loadGrammarsBody(grammars)
  /\ lcall' = [set |-> TRUE, platform |-> platform, grammars |-> grammars,
               was |-> m_highlighter, seen |-> Seen(platform, ret')]
  /\ pc' = IF Seen(platform, ret') = "crashed" THEN "crashed" ELSE pc
  /\ UNCHANGED <<code, language, tree, json, parsed, memo>>
  /\ UNCHANGED <<scanVars, matchVars, threadVars, jsVars, utilVars>>

LoadCodes == SeqsUpTo({"a"}, MaxLen)

NextLoad ==
  \/ \E p \in Platforms, g \in LoadPayloads : LoadGrammars(p, g)
  \/ \E c \in LoadCodes, l \in DetLanguages : tokenizeToJson(c, l)
  \/ Parse
  \/ Return

SpecLoad == Init /\ [][NextLoad]_vars

\* ------------------------------------------------ calls on separate threads

ThreadPayloads == {PayloadP1, PayloadP2}

ThreadCodes == {<<"a">>, <<"a", "b">>}

ThreadLanguage == "prio"

\* Another thread has written m_highlighter in a call that has not yet
\* returned: m_highlighter is a plain shared_ptr and the calls take no
\* lock, so an access by thread t is not ordered with that write.
Racing(t) == \E u \in Threads \ {t} : th[u].pc = "lret" /\ th[u].out = "built"

\* What a read of m_highlighter by thread t gives: its value, and in a
\* race also the value before the write.
ReadValues(t) == IF Racing(t) THEN {m_highlighter, hist.prev} ELSE {m_highlighter}

\* Whether the pointer is seen before the contents of the object it points
\* to: possible in a race only.
PartialValues(t, h) ==
  IF Racing(t) /\ h = m_highlighter THEN BOOLEAN ELSE {FALSE}

\* The instance is loaded and no call in progress writes m_highlighter or
\* has written it without having returned.
Quiet ==
  /\ m_highlighter # Null
  /\ \A u \in Threads :
       /\ th[u].pc \notin {"lbuild", "lassign"}
       /\ ~(th[u].pc = "lret" /\ th[u].out = "built")

\* Thread t calls loadGrammars(g).
LCall(t, g) ==
  /\ ~hist.crashed
  /\ th[t].pc = "idle"
  /\ th' = [th EXCEPT ![t] = [Idle EXCEPT !.pc = "lcheck", !.g = g]]
  /\ UNCHANGED <<m_highlighter, hist, notThread>>

\* if (m_highlighter) return;
LCheck(t) ==
  /\ ~hist.crashed
  /\ th[t].pc = "lcheck"
  /\ \E h \in ReadValues(t) :
       th' = [th EXCEPT ![t] = IF AlreadyLoaded(h)
                               THEN [@ EXCEPT !.pc = "lret", !.out = "noop"]
                               ELSE [@ EXCEPT !.pc = "lbuild"]]
  /\ UNCHANGED <<m_highlighter, hist, notThread>>

LBuildWith(t, decompressed) ==
  /\ th' = [th EXCEPT ![t] = IF decompressed.thrown
                             THEN [@ EXCEPT !.pc = "lret", !.out = "error"]
                             ELSE [@ EXCEPT !.pc = "lassign", !.obs = decompressed.out]]
  /\ hist' = [hist EXCEPT !.builds = @ + 1]

\* base64_decode, gzip_decompress and make_shared<SyntaxHighlighter>: the
\* payload is decoded and the registry is built, in memory of the call.
LBuild(t) ==
  /\ ~hist.crashed
  /\ th[t].pc = "lbuild"
  /\ LBuildWith(t, gzip_decompress(base64_decode(th[t].g)))
  /\ UNCHANGED <<m_highlighter, notThread>>

\* m_highlighter = ...: the pointer is assigned; the object it pointed to
\* before is destroyed.
LAssign(t) ==
  /\ ~hist.crashed
  /\ th[t].pc = "lassign"
  /\ m_highlighter' = th[t].obs
  /\ hist' = [hist EXCEPT !.prev = m_highlighter, !.assigns = @ + 1]
  /\ th' = [th EXCEPT ![t] = [@ EXCEPT !.pc = "lret", !.out = "built"]]
  /\ UNCHANGED notThread

LReturn(t) ==
  /\ ~hist.crashed
  /\ th[t].pc = "lret"
  /\ th' = [th EXCEPT ![t] = Idle]
  /\ UNCHANGED <<m_highlighter, hist, notThread>>

\* Thread t calls tokenizeToJson(c, "prio").
TCall(t, c) ==
  /\ ~hist.crashed
  /\ th[t].pc = "idle"
  /\ th' = [th EXCEPT ![t] = [Idle EXCEPT !.pc = "tcheck", !.c = c, !.after = Quiet]]
  /\ UNCHANGED <<m_highlighter, hist, notThread>>

\* if (!m_highlighter) return "[]"; otherwise the pointer is followed.
TCheck(t) ==
  /\ ~hist.crashed
  /\ th[t].pc = "tcheck"
  /\ \E h \in ReadValues(t) : \E p \in PartialValues(t, h) :
       th' = [th EXCEPT ![t] = IF NotLoaded(h)
                               THEN [@ EXCEPT !.pc = "tret", !.json = <<"[", "]">>]
                               ELSE [@ EXCEPT !.pc = "trun", !.obs = h, !.partial = p]]
  /\ UNCHANGED <<m_highlighter, hist, notThread>>

\* m_highlighter->tokenize(code, language) and tokensToJson.  When the
\* object was seen before its contents, or has been destroyed by a later
\* assignment, what the call reads is undefined: the process crashes, or
\* the call finds no grammar and returns the code as text.
TFinish(t) ==
  /\ ~hist.crashed
  /\ th[t].pc = "trun"
  /\ IF th[t].partial \/ th[t].obs # m_highlighter
     THEN \/ /\ hist' = [hist EXCEPT !.crashed = TRUE]
             /\ th' = [th EXCEPT ![t] = [@ EXCEPT !.freed = (th[t].obs # m_highlighter)]]
          \/ /\ th' = [th EXCEPT ![t] =
                         [@ EXCEPT !.pc = "tret",
                                   !.freed = (th[t].obs # m_highlighter),
                                   !.tree = <<Text(th[t].c)>>,
                                   !.json = tokensToJson(<<Text(th[t].c)>>)]]
             /\ UNCHANGED hist
     ELSE /\ th' = [th EXCEPT ![t] =
                      [@ EXCEPT !.pc = "tret",
                                !.tree = tokenize(RegistryOf(th[t].obs), th[t].c,
                                                  ThreadLanguage),
                                !.json = tokensToJson(tokenize(RegistryOf(th[t].obs),
                                                               th[t].c, ThreadLanguage))]]
          /\ UNCHANGED hist
  /\ UNCHANGED <<m_highlighter, notThread>>

TReturn(t) ==
  /\ ~hist.crashed
  /\ th[t].pc = "tret"
  /\ th' = [th EXCEPT ![t] = Idle]
  /\ UNCHANGED <<m_highlighter, hist, notThread>>

NextThreads ==
  \E t \in Threads :
    \/ \E g \in ThreadPayloads : LCall(t, g)
    \/ LCheck(t)
    \/ LBuild(t)
    \/ LAssign(t)
    \/ LReturn(t)
    \/ \E c \in ThreadCodes : TCall(t, c)
    \/ TCheck(t)
    \/ TFinish(t)
    \/ TReturn(t)

SpecThreads == Init /\ [][NextThreads]_vars

\* ------------------------------------------------------ the JavaScript module

\* import { GRAMMARS_DATA } from './grammars': the payload the package
\* ships.
GRAMMARS_DATA == PayloadP1

\* What NitroModules.createHybridObject can give the module: the native
\* object, a falsy value (the module tests for it), or an exception.
HybridOutcomes == {"object", "falsy", "throws"}

JsCodes == SeqsUpTo({"a", "b"}, MaxLen)

\* The first native call made on the object, once one is made.
FirstCall(first, name) == IF first = "" THEN name ELSE first

\* The module body with the loadGrammars call left out.
EvaluateWithoutLoad(outcome) ==
  /\ js.phase = "unevaluated"
  /\ js' = [js EXCEPT !.phase = IF outcome = "throws" THEN "failed" ELSE "evaluated",
                      !.hybrid = (outcome = "object")]
  /\ UNCHANGED <<m_highlighter, ret, pc, code, language, tree, json, parsed>>
  /\ UNCHANGED notJs

\* The module body, run once when the module is first imported:
\* createHybridObject, then loadGrammars(GRAMMARS_DATA) on the object when
\* there is one.  An exception of either ends the evaluation, and the
\* module exports nothing.
Evaluate(outcome) ==
  /\ js.phase = "unevaluated"
  /\ IF outcome = "object"
     THEN /\ loadGrammarsBody(GRAMMARS_DATA)
          /\ js' = [js EXCEPT !.phase = IF ret' \in {"built", "noop"}
                                        THEN "evaluated" ELSE "failed",
                              !.hybrid = TRUE,
                              !.loads = @ + 1,
                              !.first = FirstCall(@, "loadGrammars")]
     ELSE /\ js' = [js EXCEPT !.phase = IF outcome = "throws" THEN "failed"
                                        ELSE "evaluated"]
          /\ UNCHANGED <<m_highlighter, ret>>
  /\ UNCHANGED <<pc, code, language, tree, json, parsed>>
  /\ UNCHANGED notJs

\* tokenize(code, language) of the module: an Error when there is no
\* native object, otherwise tokenizeToJson on it.
JsTokenize(c, l) ==
  /\ js.phase = "evaluated"
  /\ pc = "idle"
  /\ code' = c
  /\ language' = l
  /\ IF ~js.hybrid
     THEN /\ js' = [js EXCEPT !.thrown = TRUE]
          /\ pc' = "done"
          /\ UNCHANGED <<tree, json>>
     ELSE /\ js' = [js EXCEPT !.tokenized = TRUE,
                              !.first = FirstCall(@, "tokenizeToJson")]
          /\ pc' = "json"
          /\ IF NotLoaded(m_highlighter)
             THEN /\ tree' = <<>>
                  /\ json' = <<"[", "]">>
             ELSE /\ tree' = tokenize(RegistryOf(m_highlighter), c, l)
                  /\ json' = tokensToJson(tokenize(RegistryOf(m_highlighter), c, l))
  /\ UNCHANGED <<m_highlighter, ret, parsed>>
  /\ UNCHANGED notJs

\* return JSON.parse(jsonString) as Token[];
JsParse ==
  /\ js.phase = "evaluated"
  /\ pc = "json"
  /\ pc' = "done"
  /\ parsed' = JSONparse(json)
  /\ UNCHANGED <<m_highlighter, ret, code, language, tree, json, js>>
  /\ UNCHANGED notJs

\* The caller has the token array, or the Error.
JsReturn ==
  /\ js.phase = "evaluated"
  /\ pc = "done"
  /\ pc' = "idle"
  /\ code' = <<>>
  /\ language' = ""
  /\ tree' = <<>>
  /\ json' = <<>>
  /\ parsed' = NoParse
  /\ js' = [js EXCEPT !.thrown = FALSE]
  /\ UNCHANGED <<m_highlighter, ret>>
  /\ UNCHANGED notJs

NextJs ==
  \/ \E o \in HybridOutcomes : Evaluate(o)
  \/ \E c \in JsCodes, l \in DetLanguages : JsTokenize(c, l)
  \/ JsParse
  \/ JsReturn

SpecJs == Init /\ [][NextJs]_vars

\* ------------------------------------------------------ base64_decode, called

\* The longest text decoded.
MaxB64 == 7

\* Texts over three alphabet characters: A (000000), g (100000) and
\* / (111111).
B64Texts == SeqsUpTo({"A", "g", "/"}, MaxB64)

B64Call(in) ==
  /\ ~b64.set
  /\ b64' = [set |-> TRUE, in |-> in, out |-> base64_decode(in)]
  /\ UNCHANGED notB64

\* The caller has used the bytes.
B64Done ==
  /\ b64.set
  /\ b64' = NoB64
  /\ UNCHANGED notB64

NextB64 ==
  \/ \E in \in B64Texts : B64Call(in)
  \/ B64Done

SpecB64 == Init /\ [][NextB64]_vars

\* ------------------------------------- SyntaxHighlighter and its utilities

\* The longest lines array rendered.
MaxLines == 2400

\* The longest string content of a token.
MaxLeaf == 2

RenderModes == {"auto", "simple", "optimized", "virtualized"}

ViewStrings == SeqsUpTo({"a", "\n"}, MaxLeaf)

\* Tokens with string content: of type "text", and of a type with an alias.
ViewLeaves ==
  {WireToken({"type", "content"}, StrValue(TextType), NoValue, StrValue(str)) :
     str \in ViewStrings}
    \cup {WireToken({"type", "alias", "content"}, StrValue(<<"k">>), StrValue(<<"l">>),
                    StrValue(str)) : str \in ViewStrings}

\* Tokens with array content: no token or one.
ViewNodes ==
  {WireToken({"type", "content"}, StrValue(<<"n">>), NoValue, ArrValue(arr)) :
     arr \in {<<>>} \cup {<<t>> : t \in ViewLeaves}}

ViewTokens == ViewLeaves \cup ViewNodes

\* Token arrays of no, one or two tokens.
ViewTrees ==
  {<<>>} \cup {<<t>> : t \in ViewTokens} \cup {<<t, u>> : t \in ViewTokens, u \in ViewTokens}

\* SyntaxHighlighter is rendered with prop renderMode and a code whose
\* token lines are lineCount many: the mode is resolved and the renderer
\* of that name is mounted.
Render(renderMode, lineCount) ==
  /\ ~view.set
  /\ view' = [NoView EXCEPT !.set = TRUE, !.kind = "render",
                            !.renderMode = renderMode, !.lineCount = lineCount,
                            !.mounted = Mounted(renderMode, lineCount)]
  /\ UNCHANGED notView

\* splitTokensIntoLines is called with a token array.
Split(tokens) ==
  /\ ~view.set
  /\ view' = [NoView EXCEPT !.set = TRUE, !.kind = "split", !.tokens = tokens,
                            !.lines = splitTokensIntoLines(tokens)]
  /\ UNCHANGED notView

\* The caller has used the result.
ViewDone ==
  /\ view.set
  /\ view' = NoView
  /\ UNCHANGED notView

NextView ==
  \/ \E renderMode \in RenderModes, lineCount \in 0..MaxLines :
       Render(renderMode, lineCount)
  \/ \E tokens \in ViewTrees : Split(tokens)
  \/ ViewDone

SpecView == Init /\ [][NextView]_vars

\* ------------------------------------------------------------------ claims

Loaded == m_highlighter # Null

Known == Loaded /\ language \in DOMAIN RegistryOf(m_highlighter)

\* The least 1-based index at which w occurs in text, 0 when it does not.
FirstIndex(text, w) ==
  LET at == {i \in 1..(Len(text) - Len(w) + 1) : SubSeq(text, i, i + Len(w) - 1) = w}
  IN  IF at = {} THEN 0 ELSE CHOOSE i \in at : \A j \in at : i <= j

\* With grammars loaded the leaf text of the token list is the source text.
CoverageWhenLoaded == (pc = "json" /\ Loaded) => LeafText(tree) = code

\* A source text without the byte 0x01 survives the round trip (when no
\* token is empty).
RoundTripPrintable ==
  (pc = "done" /\ language # "nestlb" /\ \A i \in 1..Len(code) : code[i] # SOH)
    => (~parsed.thrown /\ parsed.tokens = Wire(tree))

\* C1: for every code and every language the leaf text of the token list
\* tokenize returns, in tree order, is the code.
C1_Coverage == pc = "json" => LeafText(tree) = code

C3_TokenizeBeforeLoad ==
  (pc = "json" /\ ~Loaded /\ code # <<>>) => json = tokensToJson(<<Text(code)>>)

C5_LoadIdempotent ==
  [][Loaded => (m_highlighter' = m_highlighter /\ ret' \in {ret, "noop"})]_vars

C5_Witness == Loaded /\ ret = "noop"

\* C6: a tokenize call returns a token list to its caller and never raises.
C6_NoException == pc = "done" => ~parsed.thrown

\* C7: parsing the text tokensToJson produced gives back the token tree:
\* same structure, same type and alias on every node, same text in every
\* leaf.
C7_RoundTrip == pc = "done" => (~parsed.thrown /\ parsed.tokens = Wire(tree))

C9_DeclarationOrder ==
  (pc = "json" /\ m_highlighter = "P1" /\ language = "prio"
     /\ FirstIndex(code, <<"a", "b">>) > 0)
    => LET i == FirstIndex(code, <<"a", "b">>)
           A == Syntax(<<"A">>, <<Text(<<"a", "b">>)>>, NoAlias)
       IN  /\ i = 1 => tree[1] = A
           /\ i > 1 => (tree[1] = Text(SubSeq(code, 1, i - 1)) /\ tree[2] = A)
           /\ code = <<"a", "b">> => tree = <<A>>

C9_Witness ==
  pc = "json" /\ m_highlighter = "P1" /\ language = "prio" /\ code = <<"a", "b">>

\* C10: when the lookbehind pattern (::)x of language "lb" wins, the token
\* holds the match without the two characters of group 1, and those two
\* characters are emitted before the token, in the text that precedes it.
C10_Lookbehind ==
  (pc = "json" /\ m_highlighter = "P1" /\ language = "lb"
     /\ FirstIndex(code, <<":", ":", "x">>) > 0)
    => LET i == FirstIndex(code, <<":", ":", "x">>)
       IN  /\ tree[1] = Text(SubSeq(code, 1, i + 1))
           /\ tree[2] = Syntax(<<"L">>, <<Text(<<"x">>)>>, NoAlias)

C10_Witness ==
  pc = "json" /\ m_highlighter = "P1" /\ language = "lb" /\ code = <<":", ":", "x">>

\* C11: when a pattern with a nested grammar wins (every classified token
\* of the languages "nest" and "nestlb", nested grammar "prio"), the
\* token's content on the wire is an array, never a string, and that array
\* is the token list "prio" gives for the text the token covers.
C11_NestedContent ==
  (pc = "done" /\ m_highlighter = "P1" /\ language \in {"nest", "nestlb"})
    => /\ ~parsed.thrown
       /\ Len(parsed.tokens) = Len(tree)
       /\ \A i \in 1..Len(tree) :
            tree[i].syntax
              => /\ parsed.tokens[i].content.isArr
                 /\ parsed.tokens[i].content.arr
                      = Wire(tokenize(Registry1, LeafText(tree[i].children), "prio"))

\* The same for the tokens that cover at least one character; for "nest"
\* the text covered is a quoted run, and "ab" in quotes holds an A token
\* between two quotes.
NestedContentNonEmpty ==
  (pc = "done" /\ m_highlighter = "P1" /\ language \in {"nest", "nestlb"})
    => /\ ~parsed.thrown
       /\ Len(parsed.tokens) = Len(tree)
       /\ LeafText(tree) = code
       /\ \A i \in 1..Len(tree) :
            (tree[i].syntax /\ LeafText(tree[i].children) # <<>>)
              => /\ parsed.tokens[i].content.isArr
                 /\ parsed.tokens[i].content.arr
                      = Wire(tokenize(Registry1, LeafText(tree[i].children), "prio"))
                 /\ language = "nest"
                      => /\ Head(LeafText(tree[i].children)) = QUOTE
                         /\ LeafText(tree[i].children)[Len(LeafText(tree[i].children))]
                              = QUOTE
       /\ code = <<QUOTE, "a", "b", QUOTE>>
            => tree = <<Syntax(<<"S">>,
                               <<Text(<<QUOTE>>),
                                 Syntax(<<"A">>, <<Text(<<"a", "b">>)>>, NoAlias),
                                 Text(<<QUOTE>>)>>,
                               NoAlias)>>

\* C12: a classified token of a pattern without a nested grammar (every
\* classified token of the languages other than "nest" and "nestlb") has
\* on the wire a string content, the text the pattern matched: not an
\* array and not the empty string.
C12_PlainContent ==
  (pc = "done" /\ Known /\ language \notin {"nest", "nestlb"} /\ ~parsed.thrown)
    => /\ Len(parsed.tokens) = Len(tree)
       /\ \A i \in 1..Len(tree) :
            tree[i].syntax
              => /\ ~parsed.tokens[i].content.isArr
                 /\ parsed.tokens[i].content.str # <<>>
                 /\ parsed.tokens[i].content = StrValue(LeafText(tree[i].children))

\* What the serializer writes instead: the content of such a token is an
\* array holding one text token with the matched text.
PlainContentIsArray ==
  (pc = "done" /\ Known /\ language \notin {"nest", "nestlb"} /\ ~parsed.thrown)
    => /\ Len(parsed.tokens) = Len(tree)
       /\ \A i \in 1..Len(tree) :
            tree[i].syntax
              => parsed.tokens[i].content
                   = ArrValue(<<WireToken({"type", "content"}, StrValue(TextType), NoValue,
                                          StrValue(LeafText(tree[i].children)))>>)

\* The step-wise scan returns what the scan loop computes.
ScanAgrees ==
  result.set => result.tokens = Scan(RegistryScan, result.gname, result.text, 0)

\* No call in progress has the grammar and the text of a call that waits
\* for it (such a call would repeat itself without end).
NoRecurrence ==
  \A i, j \in 1..Len(stack) :
    i < j => <<stack[i].gname, stack[i].text>> # <<stack[j].gname, stack[j].text>>

\* One step of the scan: no cursor moves back or past the end of its text;
\* an iteration that ends (a plain match, an empty match, no match, or the
\* return of the nested call) leaves the cursor of its call strictly
\* greater; and in language "empty" (a* declared first), at an x with no b
\* ahead, the empty match of a* is no match: the x is emitted as Text and
\* the cursor moves by one.
ScanProgress ==
  /\ \A i \in 1..Len(stack) :
       i <= Len(stack')
         => /\ stack'[i].cursor >= stack[i].cursor
            /\ stack'[i].cursor <= Len(stack[i].text)
  /\ (stack # <<>> /\ Len(stack') = Len(stack))
       => stack'[Len(stack)].cursor > Top.cursor
  /\ (Len(stack) > 1 /\ Len(stack') = Len(stack) - 1)
       => stack'[Len(stack')].cursor > stack[Len(stack')].cursor
  /\ (/\ Scanning
      /\ Top.gname = "empty"
      /\ Top.text[Top.cursor + 1] = "x"
      /\ \A j \in (Top.cursor + 1)..Len(Top.text) : Top.text[j] # "b")
       => stack' = [stack EXCEPT ![Len(stack)] =
                      [Top EXCEPT !.out = @ \o <<Text(<<"x">>)>>, !.cursor = @ + 1]]

C14_GreedyExtension ==
  /\ (pc = "json" /\ m_highlighter = "P1" /\ language = "greedy")
       => /\ \A i \in 1..(Len(tree) - 1) :
               ~(tree[i].type = <<"G">> /\ tree[i + 1].type = <<"G">>)
          /\ \A i \in 1..Len(tree) :
               LET leaf == LeafText(<<tree[i]>>)
               IN  IF tree[i].type = <<"G">>
                   THEN leaf # <<>> /\ \A j \in 1..Len(leaf) : leaf[j] = "a"
                   ELSE \A j \in 1..Len(leaf) : leaf[j] # "a"
          /\ code = <<"a", "a", "b">>
               => tree = <<Syntax(<<"G">>, <<Text(<<"a", "a">>)>>, NoAlias),
                           Syntax(<<"B">>, <<Text(<<"b">>)>>, NoAlias)>>
  /\ (pc = "json" /\ Loaded /\ language = "prio")
       => /\ \A i \in 1..Len(tree) :
               tree[i].type = <<"B">> => tree[i].children = <<Text(<<"a">>)>>
          /\ code = <<"a", "a">>
               => tree = <<Syntax(<<"B">>, <<Text(<<"a">>)>>, NoAlias),
                           Syntax(<<"B">>, <<Text(<<"a">>)>>, NoAlias)>>

C14_Witness ==
  /\ pc = "json" /\ m_highlighter = "P1" /\ language = "greedy"
  /\ code = <<"a", "a", "b">>
  /\ Len(tree) = 2

\* C15: a Pattern whose source did not compile never reports a match,
\* whatever the text and the start position from 0 to the length of the
\* text (success was false before the call and is false after it).
C15_InertPattern ==
  (mcall.set /\ ~mcall.raw.valid /\ ~mcall.success) => ~mcall.out.success

\* It reports none from a start position before the end of the text.
InertBeforeEnd ==
  (mcall.set /\ ~mcall.raw.valid /\ ~mcall.success /\ mcall.pos < Len(mcall.text))
    => ~mcall.out.success

\* From the end of the text (an empty search range) it reports an empty
\* match.
MatchesAtEnd ==
  (mcall.set /\ ~mcall.raw.valid /\ mcall.pos = Len(mcall.text))
    => mcall.out = [success |-> TRUE, pos |-> mcall.pos, str |-> <<>>]

\* C16: a loadGrammars call on an unloaded instance with a payload that is
\* not the base64 text of a complete gzip stream reports an error to its
\* caller and leaves the instance unloaded, and a tokenize call made
\* while the instance is unloaded returns ("[]") instead of raising.
C16_DecodeFailureReported ==
  /\ (lcall.set /\ lcall.was = Null /\ ~ValidPayload(lcall.grammars))
       => (lcall.seen = "threw" /\ m_highlighter = Null)
  /\ (pc = "json" /\ lcall.set /\ ~Loaded) => json = <<"[", "]">>

\* What the calls with such a payload do: a payload cut by a character
\* outside the alphabet after a complete stream loads; a stream with a
\* wrong byte raises, which the caller sees through the hybrid object
\* only; a stream that stops early raises or ends the process.
DecodeFailureOutcomes ==
  (lcall.set /\ lcall.was = Null /\ ~ValidPayload(lcall.grammars))
    => /\ lcall.grammars = PayloadTrailing
            => (lcall.seen = "returned" /\ m_highlighter = "P1")
       /\ lcall.grammars # PayloadTrailing => m_highlighter = Null
       /\ lcall.grammars = PayloadCorrupt
            => lcall.seen = (CASE lcall.platform = "nitro"   -> "threw"
                               [] lcall.platform = "windows" -> "returned"
                               [] OTHER                      -> "crashed")
       /\ lcall.grammars \in {PayloadTruncated, PayloadCut, PayloadEmpty}
            => /\ ret \in {"error", "crash"}
               /\ lcall.platform = "android" => lcall.seen = "crashed"
               /\ lcall.platform = "windows" => lcall.seen \in {"returned", "crashed"}
               /\ lcall.platform = "nitro" => lcall.seen \in {"threw", "crashed"}

\* A step of a tokenize call of thread t leaves m_highlighter and the
\* calls of the other threads as they are.
TokenizeSteps ==
  \A t \in Threads :
    (th[t].pc \in {"tcheck", "trun", "tret"} /\ th'[t] # th[t])
      => /\ m_highlighter' = m_highlighter
         /\ \A u \in Threads \ {t} : th'[u] = th[u]

C18_BuildsOnce == hist.builds <= 1 /\ hist.assigns <= 1

\* C19: a tokenize call that runs while another thread loads sees no
\* registry or the complete one, never an object whose contents are not
\* yet there.
C19_NoPartialRegistry ==
  \A t \in Threads : th[t].pc \in {"trun", "tret"} => ~th[t].partial

\* A step of a tokenize call of the module makes no loadGrammars call.
JsTokenizeNeverLoads ==
  (pc # "idle" \/ pc' # "idle") => (js'.loads = js.loads /\ m_highlighter' = m_highlighter)

\* C20: through the JavaScript module, loadGrammars(GRAMMARS_DATA) is
\* called on the native object exactly once, when the module is evaluated,
\* before any tokenizeToJson call a tokenize call makes, and no step of a
\* tokenize call makes a loadGrammars call.
C20_JsOrdering ==
  /\ []((js.phase = "evaluated" /\ js.hybrid)
          => (js.loads = 1 /\ js.first = "loadGrammars" /\ m_highlighter # Null))
  /\ [](js.tokenized => (js.phase = "evaluated" /\ js.hybrid))
  /\ [](js.loads <= 1)
  /\ [][JsTokenizeNeverLoads]_vars

C20_Witness ==
  /\ js.phase = "evaluated" /\ js.hybrid /\ js.tokenized /\ js.loads = 1
  /\ pc = "done" /\ code = <<"a", "b">> /\ language = "prio"
  /\ ~parsed.thrown /\ parsed.tokens # <<>>

\* What the search of the last match call found.
Found == regex_search(Pattern(mcall.raw).m_regex, mcall.text, mcall.pos)

\* The length of group 1 that match takes off the front of the span.
Skipped ==
  IF mcall.raw.lookbehind /\ Found.g1matched THEN Found.g1length ELSE 0

\* C24: when the search of a match call from position p on a text of
\* length n finds a match, success is set, the span [s, e) returned has
\* p <= s <= e <= n, pos is s, e is the end of the full match, and s is
\* the start of the full match plus the length of group 1 when the pattern
\* is a lookbehind one and the group matched, plus 0 otherwise.
C24_MatchBounds ==
  (mcall.set /\ Found.matched)
    => /\ mcall.out.success
       /\ mcall.pos <= mcall.out.pos
       /\ mcall.out.pos + Len(mcall.out.str) <= Len(mcall.text)
       /\ mcall.out.pos + Len(mcall.out.str) = mcall.pos + Found.position + Found.length
       /\ mcall.out.pos = mcall.pos + Found.position + Skipped
       /\ mcall.out.str = substr(mcall.text, mcall.out.pos, Found.length - Skipped)

C24_Witness ==
  /\ mcall.set /\ mcall.raw.lookbehind /\ mcall.raw.valid
  /\ mcall.raw.re = ReOptLb
  /\ mcall.text = <<"a", ":", "x">> /\ mcall.pos = 0
  /\ mcall.out = [success |-> TRUE, pos |-> 2, str |-> <<"x">>]

\* C25: when the search of a match call finds nothing, the call reports
\* not-matched whatever success held before, returns an empty span and
\* leaves pos as it was.
C25_MatchFailure ==
  (mcall.set /\ ~Found.matched)
    => /\ ~mcall.out.success
       /\ mcall.out.str = <<>>
       /\ mcall.out.pos = mcall.pos

\* What a failed search does leave: success and pos as they were, and an
\* empty span.
FailureWritesNothing ==
  (mcall.set /\ ~Found.matched)
    => mcall.out = [success |-> mcall.success, pos |-> mcall.pos, str |-> <<>>]

\* No pattern of grammar gname has a match in text from position cursor on.
NoPatternMatches(gname, text, cursor) ==
  \A k \in 1..Len(RulesOf(RegistryScan[gname], 1, 1)) :
    ~regex_search(RulesOf(RegistryScan[gname], 1, 1)[k].pat.m_regex, text, cursor).matched

\* The call on top of the stack emits the rest of its text as one Text
\* token and its loop ends.
EmitsRemainder ==
  /\ Len(stack') = Len(stack)
  /\ stack'[Len(stack)] =
       [Top EXCEPT !.out = @ \o <<Text(SubSeq(Top.text, Top.cursor + 1, Len(Top.text)))>>,
                   !.cursor = Len(Top.text)]
  /\ \A i \in 1..(Len(stack) - 1) : stack'[i] = stack[i]

\* C26: when no pattern of the grammar matches anywhere from the cursor to
\* the end of a non-empty remainder, the iteration emits the remainder as
\* one Text token, which is the last of the call, and the loop ends; a
\* call on a non-empty text in which no pattern matches returns exactly
\* one Text token equal to the text.
C26_UnmatchedRemainder ==
  /\ [][(Scanning /\ NoPatternMatches(Top.gname, Top.text, Top.cursor))
          => EmitsRemainder]_vars
  /\ []((result.set /\ result.text # <<>>
           /\ NoPatternMatches(result.gname, result.text, 0))
          => result.tokens = <<Text(result.text)>>)

C26_Witness ==
  /\ result.set /\ result.gname = "greedy" /\ result.text = <<"a", "x", "x">>
  /\ Len(result.tokens) = 2
  /\ result.tokens[2] = Text(<<"x", "x">>)

C26_WitnessWhole ==
  /\ result.set /\ result.gname = "prio" /\ result.text = <<SOH, SOH>>
  /\ result.tokens = <<Text(<<SOH, SOH>>)>>

\* What tokensToJson writes before and after the escaped value of a token
\* list of one Text node.
TextPrefix ==
  <<"[", "{">> \o KeyType \o TextType \o <<QUOTE>> \o KeyContent \o <<QUOTE>>

TextSuffix == <<QUOTE, "}", "]">>

\* The string body escapeJson wrote for the one Text node of the call.
EscapedBody == SubSeq(json, Len(TextPrefix) + 1, Len(json) - Len(TextSuffix))

\* The body is a valid JSON string body (no raw quote, backslash or
\* control character) and decodes to str.
DecodesTo(body, str) ==
  ParseStringBody(Append(body, QUOTE), 1, <<>>)
    = [ok |-> TRUE, val |-> StrValue(str), next |-> Len(body) + 2]

\* C27: for every string, what escapeJson returns is a valid JSON string
\* body, without a raw double quote, backslash or control character below
\* 0x20, and JSON-decoding it yields the string.
C27_EscapeLossless ==
  (pc = "json" /\ tree = <<Text(code)>>) => DecodesTo(EscapedBody, code)

\* It is so for the strings without a control character other than \b,
\* \f, \n, \r and \t.
EscapeLosslessWithoutOtherControls ==
  (pc = "json" /\ tree = <<Text(code)>> /\ \A i \in 1..Len(code) : code[i] # SOH)
    => (EscapedBody = escapeJson(code) /\ DecodesTo(EscapedBody, code))

\* The last loadGrammars call was made on the hybrid object of an unloaded
\* instance and its payload fails to decompress.
FailedLoad ==
  /\ lcall.set /\ lcall.platform = "nitro" /\ lcall.was = Null
  /\ gzip_decompress(base64_decode(lcall.grammars)).thrown

\* C28: after a loadGrammars call that fails, the instance is unloaded and
\* still there: the call has raised its error, m_highlighter is empty, a
\* tokenize call returns "[]", and a later loadGrammars call with a valid
\* payload builds the highlighter.
C28_FailedLoadLeavesUnloaded ==
  FailedLoad
    => /\ lcall.seen = "threw"
       /\ m_highlighter = Null
       /\ pc # "crashed"
       /\ pc = "json" => json = <<"[", "]">>

\* It is so when the failure comes with a message of zlib (a wrong byte
\* in the stream).
FailedLoadWithMessage ==
  (FailedLoad /\ ~gzip_decompress(base64_decode(lcall.grammars)).msgNull)
    => /\ lcall.seen = "threw"
       /\ m_highlighter = Null
       /\ pc # "crashed"
       /\ pc = "json" => json = <<"[", "]">>

\* A loadGrammars call with a valid payload on an unloaded instance is
\* not skipped by the guard: it builds the highlighter.
ValidLoadBuilds ==
  [][(m_highlighter = Null /\ lcall' # lcall /\ ValidPayload(lcall'.grammars))
       => m_highlighter' = gzip_decompress(base64_decode(lcall'.grammars)).out]_vars

\* The six bits of an alphabet value, the highest first.
SixBits(v) ==
  <<(v \div 32) % 2, (v \div 16) % 2, (v \div 8) % 2, (v \div 4) % 2,
    (v \div 2) % 2, v % 2>>

RECURSIVE BitsOf(_)
BitsOf(in) == IF in = <<>> THEN <<>> ELSE SixBits(T(Head(in))) \o BitsOf(Tail(in))

\* The byte made of bits 8k+1 to 8k+8.
ByteAt(bits, k) ==
  (128 * bits[8 * k + 1]) + (64 * bits[8 * k + 2]) + (32 * bits[8 * k + 3])
    + (16 * bits[8 * k + 4]) + (8 * bits[8 * k + 5]) + (4 * bits[8 * k + 6])
    + (2 * bits[8 * k + 7]) + bits[8 * k + 8]

\* Standard base64 decoding of a text of alphabet characters: the bits of
\* the characters in a row, cut into bytes; bits left over are dropped.
StandardDecode(in) ==
  [k \in 1..((6 * Len(in)) \div 8) |-> ByteAt(BitsOf(in), k - 1)]

\* C29: for every text of alphabet characters, also one long enough for
\* the 32-bit accumulator to wrap, base64_decode returns the bytes of
\* standard base64 decoding, floor(6 * length / 8) of them.
C29_OverflowHarmless ==
  b64.set => /\ b64.out = StandardDecode(b64.in)
             /\ Len(b64.out) = (6 * Len(b64.in)) \div 8

\* A text of seven characters whose leading bits are lost from the
\* accumulator.
C29_Witness ==
  /\ b64.set
  /\ b64.in = <<"/", "/", "/", "/", "/", "g", "A">>
  /\ b64.out = <<255, 255, 255, 254, 0>>

\* C22: for every code and language, getPlainText(tokenize(code,
\* language)) is the code: tokenize returns a token array, flattenTokens
\* gives its string-content leaves in tree order and getPlainText their
\* contents in a row.
C22_PlainTextRecovers ==
  (pc = "done" /\ Loaded)
    => (~parsed.thrown /\ getPlainText(parsed.tokens) = code)

\* It is so whenever tokenize returns: the flattened tokens all have
\* string content, their contents in a row are the leaf text of the
\* native tree, which is the code.
PlainTextWhenReturned ==
  (pc = "done" /\ Loaded /\ ~parsed.thrown)
    => /\ \A i \in 1..Len(flattenTokens(parsed.tokens)) :
            ~flattenTokens(parsed.tokens)[i].content.isArr
       /\ getPlainText(parsed.tokens) = WireLeafText(parsed.tokens)
       /\ getPlainText(parsed.tokens) = code

\* The renderer the claim names for a number of lines.
RendererFor(lineCount) ==
  IF lineCount < SimpleLimit THEN "simple"
  ELSE IF lineCount < OptimizedLimit THEN "optimized"
  ELSE "virtualized"

\* C21: with renderMode 'auto' SyntaxHighlighter mounts exactly one
\* renderer whatever the number of lines: the simple one below 50 lines,
\* the optimized one from 50 to 499, the virtualized one from 500 on.
C21_AutoAlwaysRenders ==
  (view.set /\ view.kind = "render" /\ view.renderMode = "auto")
    => view.mounted = {RendererFor(view.lineCount)}

\* It is so below 2000 lines, and from 2000 lines on nothing is mounted.
AutoRendersBelowLimit ==
  (view.set /\ view.kind = "render" /\ view.renderMode = "auto")
    => view.mounted = (IF view.lineCount < VirtualizedLimit
                       THEN {RendererFor(view.lineCount)} ELSE {})

\* The leaf text of the token array given to splitTokensIntoLines.
SplitText == getPlainText(view.tokens)

Newlines(str) == Cardinality({i \in 1..Len(str) : str[i] = "\n"})

\* The contents of the tokens of the lines from line i on, joined with
\* newlines.
RECURSIVE JoinLines(_, _)
JoinLines(lines, i) ==
  IF i > Len(lines) THEN <<>>
  ELSE JoinContents(lines[i])
         \o (IF i < Len(lines) THEN <<"\n">> \o JoinLines(lines, i + 1) ELSE <<>>)

\* C23 as stated: the result has one array per line of the leaf text, an
\* empty last line included: as many as there are newlines, plus one.
C23_OneArrayPerLine ==
  (view.set /\ view.kind = "split") => Len(view.lines) = Newlines(SplitText) + 1

\* C23: the result has one array per line of the leaf text except for a
\* last line without content: as many as there are newlines, plus one
\* when text follows the last newline; array i holds the text of line i,
\* and is empty when the line is.
C23_OneArrayPerLineWithContent ==
  (view.set /\ view.kind = "split")
    => /\ Len(view.lines)
            = Newlines(SplitText)
                + (IF split(SplitText)[Newlines(SplitText) + 1] # <<>> THEN 1 ELSE 0)
       /\ \A i \in 1..Len(view.lines) :
            /\ JoinContents(view.lines[i]) = split(SplitText)[i]
            /\ (view.lines[i] = <<>>) <=> (split(SplitText)[i] = <<>>)

C23_Witness ==
  /\ view.set /\ view.kind = "split"
  /\ SplitText = <<"a", "\n", "\n">>
  /\ Len(view.lines) = 2
  /\ view.lines[2] = <<>>

\* The tokens of the lines from line i on, in a row.
RECURSIVE LineTokens(_, _)
LineTokens(lines, i) ==
  IF i > Len(lines) THEN <<>> ELSE lines[i] \o LineTokens(lines, i + 1)

\* The non-empty pieces of a leaf, each as the leaf with that content.
RECURSIVE CutLeaf(_, _, _)
CutLeaf(leaf, pieces, i) ==
  IF i > Len(pieces) THEN <<>>
  ELSE (IF pieces[i] # <<>> THEN <<[leaf EXCEPT !.content = StrValue(pieces[i])]>>
        ELSE <<>>) \o CutLeaf(leaf, pieces, i + 1)

RECURSIVE CutLeaves(_)
CutLeaves(flat) ==
  IF flat = <<>> THEN <<>>
  ELSE CutLeaf(Head(flat), split(Head(flat).content.str), 1) \o CutLeaves(Tail(flat))

\* str without one newline at its end, when it has one.
WithoutTrailingNewline(str) ==
  IF str # <<>> /\ str[Len(str)] = "\n" THEN SubSeq(str, 1, Len(str) - 1) ELSE str

\* C30: the contents of the lines joined with newlines are the leaf text,
\* or the leaf text without one newline at its end; no token returned has
\* empty content or a newline in it; the tokens returned are, in order,
\* the pieces of the leaves, each with the type and alias of its leaf.
C30_SplitPreservesText ==
  (view.set /\ view.kind = "split")
    => /\ JoinLines(view.lines, 1) \in {SplitText, WithoutTrailingNewline(SplitText)}
       /\ \A i \in 1..Len(view.lines) : \A j \in 1..Len(view.lines[i]) :
            /\ ~view.lines[i][j].content.isArr
            /\ view.lines[i][j].content.str # <<>>
            /\ Newlines(view.lines[i][j].content.str) = 0
       /\ LineTokens(view.lines, 1) = CutLeaves(flattenTokens(view.tokens))

C30_Witness ==
  /\ view.set /\ view.kind = "split"
  /\ Len(view.tokens) = 2
  /\ view.tokens[1].content.isArr
  /\ Len(view.lines) = 2
  /\ Len(view.lines[2]) = 2
  /\ view.lines[2][1].alias = StrValue(<<"l">>)
  /\ view.lines[2][2].type = StrValue(TextType)

====
